---- MODULE Spec2Model ----
(***************************************************************************)
(* A model of scripts/generate_posts_index.py: the Markdown line           *)
(* transducer md_to_html_body and the generation pipeline main.            *)
(*                                                                         *)
(* Text is modelled as a sequence of one-character strings, so that        *)
(* stripping, pattern matching, escaping and formatting are computed       *)
(* character by character as the code computes them.                       *)
(***************************************************************************)
EXTENDS Integers, Sequences, FiniteSets, TLC

VARIABLES
    md,         \* md_to_html_body: the argument md
    i,          \* md_to_html_body: number of lines of md.splitlines() consumed
    out,        \* md_to_html_body: the list out
    in_code,    \* md_to_html_body: the flag in_code
    in_list,    \* md_to_html_body: the flag in_list
    para,       \* md_to_html_body: the list para
    outLines,   \* history: for each entry of out, the input lines whose text it carries
    paraLines,  \* history: for each entry of para, the input line it came from
    result,     \* md_to_html_body: the returned string
    pc,         \* position of the conversion: "loop", "done" ("idle": not running)
    returned,   \* history: the argument and the result of each call that has returned
    md_dir,     \* the directory MD_DIR: whether it exists, and its entries by name
    html_dir,   \* the directory HTML_DIR: whether it exists, and its entries by name
    names,      \* compile_md_posts: sorted(os.listdir(MD_DIR))
    taken,      \* compile_md_posts: number of names the loop has taken
    written,    \* compile_md_posts: the list written
    calls,      \* history: what each call of md_to_html_with_pandoc met and returned
    posts,      \* main: the list posts
    index_file, \* the file INDEX_PATH: whether it was written, and the entries it lists
    printed,    \* main: the two counts of the final print
    error,      \* the exception that ended main, "" when none
    mpc         \* position of main ("idle": not running)

mdVars ==
    <<md, i, out, in_code, in_list, para, outLines, paraLines, result, pc,
      returned>>

mainVars ==
    <<md_dir, html_dir, names, taken, written, calls, posts, index_file, printed,
      error, mpc>>

vars == <<mdVars, mainVars>>

(***************************************************************************)
(* Bounds of the model.                                                    *)
(***************************************************************************)
MaxLines == 3
MaxMdEntries == 2
MaxHtmlEntries == 1
MaxCallLines == 2
MaxCalls == 3

(***************************************************************************)
(* Characters and strings.                                                 *)
(***************************************************************************)
NL == "\n"

\* str.strip() / the regular expression class \s, on the characters used here
IsSpace(c) == c \in {" ", "\t"}

RECURSIVE LeadingSpaces(_)
LeadingSpaces(s) ==
    IF s = <<>> \/ ~IsSpace(Head(s)) THEN 0 ELSE 1 + LeadingSpaces(Tail(s))

RECURSIVE TrailingSpaces(_)
TrailingSpaces(s) ==
    IF s = <<>> \/ ~IsSpace(s[Len(s)]) THEN 0
    ELSE 1 + TrailingSpaces(SubSeq(s, 1, Len(s) - 1))

Drop(s, n) == SubSeq(s, n + 1, Len(s))

\* str.lstrip()
LStrip(s) == Drop(s, LeadingSpaces(s))

\* str.strip()
Strip(s) ==
    LET t == LStrip(s) IN SubSeq(t, 1, Len(t) - TrailingSpaces(t))

\* str.rstrip of newlines
RECURSIVE RStripNL(_)
RStripNL(s) ==
    IF s # <<>> /\ s[Len(s)] = NL THEN RStripNL(SubSeq(s, 1, Len(s) - 1)) ELSE s

\* str.startswith(p)
StartsWith(s, p) == Len(s) >= Len(p) /\ SubSeq(s, 1, Len(p)) = p

\* sep.join(parts)
RECURSIVE Join(_, _)
Join(parts, sep) ==
    IF parts = <<>> THEN <<>>
    ELSE IF Len(parts) = 1 THEN parts[1]
    ELSE parts[1] \o sep \o Join(Tail(parts), sep)

\* str.splitlines(), for the newline line boundary
RECURSIVE SplitFrom(_, _, _)
SplitFrom(s, cur, acc) ==
    IF s = <<>> THEN (IF cur = <<>> THEN acc ELSE Append(acc, cur))
    ELSE IF Head(s) = NL THEN SplitFrom(Tail(s), <<>>, Append(acc, cur))
    ELSE SplitFrom(Tail(s), Append(cur, Head(s)), acc)

SplitLines(s) == SplitFrom(s, <<>>, <<>>)

\* re.sub(c, rep, s) for a one-character pattern c
RECURSIVE ReplaceChar(_, _, _)
ReplaceChar(s, c, rep) ==
    IF s = <<>> THEN <<>>
    ELSE (IF Head(s) = c THEN rep ELSE <<Head(s)>>) \o ReplaceChar(Tail(s), c, rep)

\* index of the first c in s at or after position p, 0 when there is none
RECURSIVE Find(_, _, _)
Find(s, c, p) ==
    IF p > Len(s) THEN 0 ELSE IF s[p] = c THEN p ELSE Find(s, c, p + 1)

AMP == <<"&", "a", "m", "p", ";">>
LT == <<"&", "l", "t", ";">>
\* the backquote character, which a TLA+ string cannot hold: one opaque token
BACKQUOTE == "bq"

FENCE == <<BACKQUOTE, BACKQUOTE, BACKQUOTE>>
PRE_OPEN == <<"<", "p", "r", "e", ">", "<", "c", "o", "d", "e", ">">>
PRE_CLOSE == <<"<", "/", "c", "o", "d", "e", ">", "<", "/", "p", "r", "e", ">">>
UL_OPEN == <<"<", "u", "l", ">">>
UL_CLOSE == <<"<", "/", "u", "l", ">">>
LI_OPEN == <<" ", " ", "<", "l", "i", ">">>
LI_CLOSE == <<"<", "/", "l", "i", ">">>
P_OPEN == <<"<", "p", ">">>
P_CLOSE == <<"<", "/", "p", ">">>
A_HREF == <<"<", "a", " ", "h", "r", "e", "f", "=", "\"">>
A_MID == <<"\"", ">">>
A_CLOSE == <<"<", "/", "a", ">">>

Digit(n) == CASE n = 1 -> "1" [] n = 2 -> "2" [] n = 3 -> "3"
              [] n = 4 -> "4" [] n = 5 -> "5" [] n = 6 -> "6"

H_OPEN(n) == <<"<", "h", Digit(n), ">">>
H_CLOSE(n) == <<"<", "/", "h", Digit(n), ">">>

(***************************************************************************)
(* The patterns of md_to_html_body.                                        *)
(***************************************************************************)

\* The inline-link re.sub of flush_para and of the list-item branch: a bracketed
\* label (one or more characters other than the closing bracket) followed at
\* once by a parenthesised target (one or more characters other than the closing
\* parenthesis) becomes an anchor; scanning from position p, the leftmost match
\* at each point, with no rescan of what was produced
RECURSIVE LinkSubFrom(_, _)
LinkSubFrom(s, p) ==
    IF p > Len(s) THEN <<>>
    ELSE
        LET rb == IF s[p] = "[" THEN Find(s, "]", p + 1) ELSE 0
            rp == IF rb > p + 1 /\ rb < Len(s) /\ s[rb + 1] = "("
                  THEN Find(s, ")", rb + 2) ELSE 0
        IN IF rp > rb + 2
           THEN A_HREF \o SubSeq(s, rb + 2, rp - 1) \o A_MID
                    \o SubSeq(s, p + 1, rb - 1) \o A_CLOSE \o LinkSubFrom(s, rp + 1)
           ELSE <<s[p]>> \o LinkSubFrom(s, p + 1)

\* LinkSub run a second time over its own output
LinkSubRescan(s) == LinkSubFrom(LinkSubFrom(s, 1), 1)

LinkSub(s) == LinkSubFrom(s, 1)

\* line.strip().startswith(fence)
IsFence(line) == StartsWith(Strip(line), FENCE)

RECURSIVE LeadingHashes(_)
LeadingHashes(s) ==
    IF s = <<>> \/ Head(s) # "#" THEN 0 ELSE 1 + LeadingHashes(Tail(s))

\* the heading re.match: one to six # characters, then whitespace
IsHeading(line) ==
    LET h == LeadingHashes(line)
    IN h \in 1..6 /\ Len(line) > h /\ IsSpace(line[h + 1])

HeadingLevel(line) == LeadingHashes(line)

\* m.group(2).strip()
HeadingText(line) == Strip(Drop(line, LeadingHashes(line)))

\* the list-item re.match: optional whitespace, - or *, whitespace, one more character
IsListItem(line) ==
    LET t == LStrip(line)
    IN Len(t) >= 3 /\ t[1] \in {"-", "*"} /\ IsSpace(t[2])

\* the list-item re.sub that removes the bullet and the whitespace around it
ItemText(line) == LStrip(Drop(LStrip(line), 1))

\* IsBlank holding of the empty line only
IsBlankEmptyOnly(line) == line = <<>>

\* line.strip() is empty
IsBlank(line) == Strip(line) = <<>>

\* the code-line escaping: the inner re.sub of < runs first, the outer re.sub of & second
EscapeCode(line) == ReplaceChar(ReplaceChar(line, "<", LT), "&", AMP)

(***************************************************************************)
(* md_to_html_body: the transduction state and the branches of its loop.   *)
(* A state is a record of the locals out, in_code, in_list and para, with  *)
(* the two history fields beside them.                                     *)
(***************************************************************************)
Range(f) == {f[k] : k \in DOMAIN f}

\* the locals at entry
InitialState ==
    [out |-> <<>>, in_code |-> FALSE, in_list |-> FALSE, para |-> <<>>,
     outLines |-> <<>>, paraLines |-> <<>>]

\* out.append(entry); from: the input lines whose text the entry carries
Emit(st, entry, from) ==
    [st EXCEPT !.out = Append(@, entry), !.outLines = Append(@, from)]

\* flush_para with the joined text taken as it stands
flush_para_unstripped(st) ==
    IF st.para # <<>>
    THEN LET text == LinkSub(Join(st.para, <<" ">>))
         IN [Emit(st, P_OPEN \o text \o P_CLOSE, Range(st.paraLines))
                EXCEPT !.para = <<>>, !.paraLines = <<>>]
    ELSE st

flush_para(st) ==
    IF st.para # <<>>
    THEN LET text == LinkSub(Strip(Join(st.para, <<" ">>)))
         IN [Emit(st, P_OPEN \o text \o P_CLOSE, Range(st.paraLines))
                EXCEPT !.para = <<>>, !.paraLines = <<>>]
    ELSE st

flush_list(st) ==
    IF st.in_list
    THEN [Emit(st, UL_CLOSE, {}) EXCEPT !.in_list = FALSE]
    ELSE st

\* Classify with the heading test moved before the in_code test
ClassifyHeadingBeforeCode(st, line) ==
    IF IsFence(line) THEN "fence"
    ELSE IF IsHeading(line) THEN "heading"
    ELSE IF st.in_code THEN "code"
    ELSE IF IsListItem(line) THEN "item"
    ELSE "other"

\* which branch of the loop body takes the line, in the order the code tests
Classify(st, line) ==
    IF IsFence(line) THEN "fence"
    ELSE IF st.in_code THEN "code"
    ELSE IF IsHeading(line) THEN "heading"
    ELSE IF IsListItem(line) THEN "item"
    ELSE "other"

\* FenceBranch with an open list left open
FenceBranchKeepsList(st) ==
    LET s1 == flush_para(st)
    IN IF ~s1.in_code
       THEN [Emit(s1, PRE_OPEN, {}) EXCEPT !.in_code = TRUE]
       ELSE [Emit(s1, PRE_CLOSE, {}) EXCEPT !.in_code = FALSE]

FenceBranch(st) ==
    LET s1 == flush_list(flush_para(st))
    IN IF ~s1.in_code
       THEN [Emit(s1, PRE_OPEN, {}) EXCEPT !.in_code = TRUE]
       ELSE [Emit(s1, PRE_CLOSE, {}) EXCEPT !.in_code = FALSE]

CodeBranch(st, line, n) == Emit(st, EscapeCode(line), {n})

\* HeadingBranch with the link substitution applied to the heading text
HeadingBranchWithLinks(st, line, n) ==
    LET s1 == flush_list(flush_para(st))
        level == HeadingLevel(line)
    IN Emit(s1, H_OPEN(level) \o LinkSub(HeadingText(line)) \o H_CLOSE(level), {n})

HeadingBranch(st, line, n) ==
    LET s1 == flush_list(flush_para(st))
        level == HeadingLevel(line)
    IN Emit(s1, H_OPEN(level) \o HeadingText(line) \o H_CLOSE(level), {n})

ListItemBranch(st, line, n) ==
    LET s1 == IF ~st.in_list
              THEN [Emit(flush_para(st), UL_OPEN, {}) EXCEPT !.in_list = TRUE]
              ELSE st
    IN Emit(s1, LI_OPEN \o LinkSub(ItemText(line)) \o LI_CLOSE, {n})

\* the else branch of the list-item test, then the blank / text test
OtherBranch(st, line, n) ==
    LET s1 == IF st.in_list /\ IsBlank(line) THEN flush_list(st) ELSE st
    IN IF IsBlank(line)
       THEN flush_para(s1)
       ELSE [s1 EXCEPT !.para = Append(@, line), !.paraLines = Append(@, n)]

\* one iteration of the loop, on line number n of the input
ProcessLine(st, raw, n) ==
    LET line == RStripNL(raw)
        c == Classify(st, line)
    IN CASE c = "fence" -> FenceBranch(st)
         [] c = "code" -> CodeBranch(st, line, n)
         [] c = "heading" -> HeadingBranch(st, line, n)
         [] c = "item" -> ListItemBranch(st, line, n)
         [] c = "other" -> OtherBranch(st, line, n)

\* EndOfInput without the closing of a code block left open
EndOfInputLeavesCodeOpen(st) == flush_list(flush_para(st))

\* the statements after the loop
EndOfInput(st) ==
    LET s1 == flush_list(flush_para(st))
    IN IF s1.in_code THEN Emit(s1, PRE_CLOSE, {}) ELSE s1

RECURSIVE RunLines(_, _, _)
RunLines(st, lines, n) ==
    IF n > Len(lines) THEN st
    ELSE RunLines(ProcessLine(st, lines[n], n), lines, n + 1)

\* the whole function, as the callers use it
MdToHtmlBody(text) ==
    Join(EndOfInput(RunLines(InitialState, SplitLines(text), 1)).out, <<NL>>)

(***************************************************************************)
(* Inputs of the conversion: documents of up to MaxLines lines drawn from  *)
(* SampleLines, joined by newlines, with or without a trailing newline.    *)
(***************************************************************************)
L_fence == FENCE
L_heading == <<"#", " ", "h">>
L_item_a == <<"-", " ", "a">>
L_item_b == <<"-", " ", "b">>
L_blank == <<>>
L_text == <<"t">>
L_escape == <<"<", "&">>
L_link == <<"[", "x", "]", "(", "u", ")">>
\* a level-2 heading with two spaces before its text, a link in it and a space after
L_heading_link == <<"#", "#", " ", " ", "[", "x", "]", "(", "u", ")", " ">>
\* seven # characters
L_hashes7 == <<"#", "#", "#", "#", "#", "#", "#", " ", "h">>
\* text with a space before and after
L_text_spaced == <<" ", "t", " ">>
\* a link, then a link whose label starts with a bracket, then a bracket left over
L_links ==
    <<"[", "x", "]", "(", "u", ")", "[", "[", "y", "]", "(", "v", ")", "]",
      "(", "w", ")">>
\* a list item with the other bullet, holding a link
L_item_link == <<"*", " ", "[", "x", "]", "(", "u", ")">>
\* whitespace only
L_space == <<" ">>

SampleLines ==
    {L_fence, L_heading, L_item_a, L_item_b, L_blank, L_text, L_escape, L_link,
     L_heading_link, L_hashes7, L_text_spaced, L_links, L_item_link, L_space}

Documents == UNION {[1..n -> SampleLines] : n \in 0..MaxLines}

Inputs == {Join(d, <<NL>>) \o t : d \in Documents, t \in {<<>>, <<NL>>}}

(***************************************************************************)
(* The conversion as a state machine: one action per branch of the loop.   *)
(***************************************************************************)
Lines == SplitLines(md)

Cur ==
    [out |-> out, in_code |-> in_code, in_list |-> in_list, para |-> para,
     outLines |-> outLines, paraLines |-> paraLines]

Line == RStripNL(Lines[i + 1])

Store(st) ==
    /\ out' = st.out
    /\ in_code' = st.in_code
    /\ in_list' = st.in_list
    /\ para' = st.para
    /\ outLines' = st.outLines
    /\ paraLines' = st.paraLines

\* the locals are those of st, in an initial state
Store0(st) ==
    /\ out = st.out
    /\ in_code = st.in_code
    /\ in_list = st.in_list
    /\ para = st.para
    /\ outLines = st.outLines
    /\ paraLines = st.paraLines

\* main is not running
MainIdle ==
    /\ md_dir = [exists |-> FALSE, entries |-> <<>>]
    /\ html_dir = [exists |-> FALSE, entries |-> <<>>]
    /\ names = <<>>
    /\ taken = 0
    /\ written = <<>>
    /\ calls = <<>>
    /\ posts = <<>>
    /\ index_file = [exists |-> FALSE, items |-> <<>>]
    /\ printed = <<>>
    /\ error = ""
    /\ mpc = "idle"

Init ==
    /\ md \in Inputs
    /\ i = 0
    /\ out = InitialState.out
    /\ in_code = InitialState.in_code
    /\ in_list = InitialState.in_list
    /\ para = InitialState.para
    /\ outLines = InitialState.outLines
    /\ paraLines = InitialState.paraLines
    /\ result = <<>>
    /\ pc = "loop"
    /\ returned = <<>>
    /\ MainIdle

InLoop == pc = "loop" /\ i < Len(Lines)

FenceLine ==
    /\ InLoop
    /\ Classify(Cur, Line) = "fence"
    /\ Store(FenceBranch(Cur))
    /\ i' = i + 1
    /\ UNCHANGED <<md, result, pc, returned>>
    /\ UNCHANGED mainVars

CodeLine ==
    /\ InLoop
    /\ Classify(Cur, Line) = "code"
    /\ Store(CodeBranch(Cur, Line, i + 1))
    /\ i' = i + 1
    /\ UNCHANGED <<md, result, pc, returned>>
    /\ UNCHANGED mainVars

HeadingLine ==
    /\ InLoop
    /\ Classify(Cur, Line) = "heading"
    /\ Store(HeadingBranch(Cur, Line, i + 1))
    /\ i' = i + 1
    /\ UNCHANGED <<md, result, pc, returned>>
    /\ UNCHANGED mainVars

ListItemLine ==
    /\ InLoop
    /\ Classify(Cur, Line) = "item"
    /\ Store(ListItemBranch(Cur, Line, i + 1))
    /\ i' = i + 1
    /\ UNCHANGED <<md, result, pc, returned>>
    /\ UNCHANGED mainVars

OtherLine ==
    /\ InLoop
    /\ Classify(Cur, Line) = "other"
    /\ Store(OtherBranch(Cur, Line, i + 1))
    /\ i' = i + 1
    /\ UNCHANGED <<md, result, pc, returned>>
    /\ UNCHANGED mainVars

Return ==
    /\ pc = "loop"
    /\ i = Len(Lines)
    /\ Store(EndOfInput(Cur))
    /\ result' = Join(EndOfInput(Cur).out, <<NL>>)
    /\ returned' = Append(returned, [md |-> md, result |-> result'])
    /\ pc' = "done"
    /\ UNCHANGED <<md, i>>
    /\ UNCHANGED mainVars

Next == FenceLine \/ CodeLine \/ HeadingLine \/ ListItemLine \/ OtherLine \/ Return

Spec == Init /\ [][Next]_vars

\* the state machine and the function agree on the result
ResultIsFunction == pc = "done" => result = MdToHtmlBody(md)

(***************************************************************************)
(* Calls of md_to_html_body one after the other: each call starts from the *)
(* locals as lines 26-29 set them.  The second call takes any document of  *)
(* CallInputs, the later ones take the document of the first call again.   *)
(***************************************************************************)
CallLines == {L_fence, L_heading, L_item_a, L_text}

CallInputs ==
    {Join(d, <<NL>>) : d \in UNION {[1..k -> CallLines] : k \in 0..MaxCallLines}}

\* entry with the flags left as the call before set them
EntryKeepsFlags(prev) ==
    [InitialState EXCEPT !.in_code = prev.in_code, !.in_list = prev.in_list]

\* the locals a call starts from, prev being the locals the call before left
EntryState(prev) == InitialState

CallInit ==
    /\ md \in CallInputs
    /\ i = 0
    /\ Store0(EntryState(InitialState))
    /\ result = <<>>
    /\ pc = "loop"
    /\ returned = <<>>
    /\ MainIdle

CallAgain ==
    /\ pc = "done"
    /\ Len(returned) < MaxCalls
    /\ md' \in (IF Len(returned) = 1 THEN CallInputs ELSE {returned[1].md})
    /\ i' = 0
    /\ Store(EntryState(Cur))
    /\ result' = <<>>
    /\ pc' = "loop"
    /\ UNCHANGED returned
    /\ UNCHANGED mainVars

CallNext == Next \/ CallAgain

CallSpec == CallInit /\ [][CallNext]_vars

(***************************************************************************)
(* Vocabulary of the properties of md_to_html_body.                        *)
(***************************************************************************)
\* the entries the step from the current state appends to out
Appended == SubSeq(out', Len(out) + 1, Len(out'))

\* out only grows
OutExtended == Len(out') >= Len(out) /\ SubSeq(out', 1, Len(out)) = out

\* line k of the input, as the loop sees it
LineAt(k) == RStripNL(Lines[k])

FenceLinesBefore(k) == {j \in 1..(k - 1) : IsFence(LineAt(j))}

\* line k is read while a code block is open: an odd number of fences precede it
InCodeAt(k) == Cardinality(FenceLinesBefore(k)) % 2 = 1

\* line k is a list-item line read outside a code block
ItemLineAt(k) == ~InCodeAt(k) /\ ~IsFence(LineAt(k)) /\ IsListItem(LineAt(k))

\* line k starts a run of consecutive list-item lines
RunStartAt(k) == ItemLineAt(k) /\ (k = 1 \/ ~ItemLineAt(k - 1))

CountOf(entry) == Cardinality({k \in DOMAIN out : out[k] = entry})

IsListItemEntry(e) ==
    /\ Len(e) >= Len(LI_OPEN) + Len(LI_CLOSE)
    /\ StartsWith(e, LI_OPEN)
    /\ SubSeq(e, Len(e) - Len(LI_CLOSE) + 1, Len(e)) = LI_CLOSE

\* escaping with & replaced first and < second
EscapeAmpFirst(line) == ReplaceChar(ReplaceChar(line, "&", AMP), "<", LT)

(***************************************************************************)
(* C1: every non-fence line read while a code block is open is emitted as  *)
(* one entry equal to the line with & replaced by &amp; and then < by      *)
(* &lt;, so that < comes out as exactly &lt; and & as exactly &amp;.       *)
(***************************************************************************)
C1_CodeLineEscapedOnce ==
    [][(InLoop /\ in_code /\ ~IsFence(Line))
         => Appended = <<EscapeAmpFirst(Line)>>]_vars

(***************************************************************************)
(* C2: whenever a list is open and the line read is not a list item        *)
(* (blank, plain text, heading or fence), the list is closed, </ul> is     *)
(* appended and in_list becomes false, before the line is buffered into    *)
(* the paragraph or produces output of its own.                            *)
(***************************************************************************)
C2_NonItemClosesList ==
    [][(InLoop /\ in_list /\ ~IsListItem(Line))
         => /\ ~in_list'
            /\ \E k \in 1..Len(Appended) :
                 /\ Appended[k] = UL_CLOSE
                 /\ \A j \in 1..k : (i + 1) \notin outLines'[Len(out) + j]]_vars

(***************************************************************************)
(* C3: the output is in input line order: for input lines a < b, every     *)
(* output entry carrying text of line a comes before every output entry    *)
(* carrying text of line b.                                                *)
(***************************************************************************)
C3_OutputInLineOrder ==
    \A a, b \in DOMAIN out :
        a < b => \A x \in outLines[a], y \in outLines[b] : x <= y

(***************************************************************************)
(* C4: while a code block is open, a line that is not a fence appends      *)
(* exactly one entry, the escaped line, which holds no element (no < at    *)
(* all) and is the line itself when the line has no & and no <; in_list,   *)
(* the paragraph buffer and in_code are unchanged.  The input fence,       *)
(* heading-like line, fence gives the code block with that line and no     *)
(* heading.                                                                *)
(***************************************************************************)
C4_Example == Join(<<L_fence, L_heading, L_fence>>, <<NL>>)

C4_CodeLineStep ==
    (InLoop /\ in_code /\ ~IsFence(Line))
        => /\ OutExtended
           /\ Len(Appended) = 1
           /\ "<" \notin Range(Appended[1])
           /\ (Range(Line) \cap {"&", "<"} = {} => Appended[1] = Line)
           /\ outLines'[Len(out')] = {i + 1}
           /\ in_list' = in_list
           /\ para' = para
           /\ in_code'

\* C4: a non-fence line read while a code block is open is never interpreted
\* as Markdown: every such step is as C4_CodeLineStep says, and the example
\* input gives the code block holding the heading-like line and no heading
C4_CodeLineNotMarkdown ==
    /\ [][C4_CodeLineStep]_vars
    /\ [](pc = "done" /\ md = C4_Example
            => out = <<PRE_OPEN, L_heading, PRE_CLOSE>>)

\* C4: a heading-like line has been read inside an open code block
C4_Witness ==
    /\ md = C4_Example
    /\ i = 2
    /\ in_code
    /\ out = <<PRE_OPEN, L_heading>>

(***************************************************************************)
(* C5: at end of input the paragraph is flushed, then an open list is      *)
(* closed, then an open code block is closed: when the last fence of the   *)
(* input is unmatched the last entry is </code></pre>, and the returned    *)
(* output has no paragraph left buffered, no list left open and no code    *)
(* block left open.                                                        *)
(***************************************************************************)
C5_ReturnStep ==
    (pc = "loop" /\ pc' = "done")
        => /\ OutExtended
           /\ Len(Appended) = (IF para # <<>> THEN 1 ELSE 0)
                                + (IF in_list THEN 1 ELSE 0)
                                + (IF in_code THEN 1 ELSE 0)
           /\ para # <<>> =>
                /\ StartsWith(Appended[1], P_OPEN)
                /\ outLines'[Len(out) + 1] = Range(paraLines)
           /\ in_list => Appended[(IF para # <<>> THEN 2 ELSE 1)] = UL_CLOSE
           /\ in_code => Appended[Len(Appended)] = PRE_CLOSE

C5_Closed ==
    pc = "done"
        => /\ para = <<>>
           /\ ~in_list
           /\ CountOf(UL_OPEN) = CountOf(UL_CLOSE)
           /\ CountOf(PRE_OPEN) = CountOf(PRE_CLOSE)
           /\ InCodeAt(Len(Lines) + 1) =>
                out # <<>> /\ out[Len(out)] = PRE_CLOSE
           /\ result = Join(out, <<NL>>)

\* C5: the return step flushes the paragraph, then closes the list, then the
\* code block, and the returned output leaves nothing buffered or open
C5_EndOfInputCloses == [][C5_ReturnStep]_vars /\ []C5_Closed

\* C5: an input with an unmatched fence has been converted
C5_Witness ==
    /\ pc = "done"
    /\ md = Join(<<L_fence, L_text>>, <<NL>>)
    /\ out = <<PRE_OPEN, L_text, PRE_CLOSE>>

(***************************************************************************)
(* C6: a list-item line read outside a code block emits <ul> only when no  *)
(* list is open, after flushing the paragraph, and always emits exactly    *)
(* one list-item entry, so a run of k consecutive list-item lines gives    *)
(* exactly one <ul>, k list items and one </ul>; the two-item input gives  *)
(* exactly the list of two items.                                          *)
(***************************************************************************)
C6_Example == Join(<<L_item_a, L_item_b>>, <<NL>>) \o <<NL>>

C6_ItemStep ==
    (InLoop /\ ~in_code /\ IsListItem(Line) /\ ~IsFence(Line))
        => /\ OutExtended
           /\ Len(Appended) >= 1
           /\ IsListItemEntry(Appended[Len(Appended)])
           /\ in_list =>  Len(Appended) = 1
           /\ ~in_list =>
                /\ Len(Appended) = (IF para # <<>> THEN 3 ELSE 2)
                /\ Appended[Len(Appended) - 1] = UL_OPEN
                /\ para # <<>> => StartsWith(Appended[1], P_OPEN)
           /\ in_list'
           /\ para' = <<>> \/ in_list

C6_Runs ==
    pc = "done"
        => /\ CountOf(UL_OPEN) = Cardinality({k \in DOMAIN Lines : RunStartAt(k)})
           /\ CountOf(UL_CLOSE) = Cardinality({k \in DOMAIN Lines : RunStartAt(k)})
           /\ Cardinality({k \in DOMAIN out : IsListItemEntry(out[k])})
                = Cardinality({k \in DOMAIN Lines : ItemLineAt(k)})
           /\ md = C6_Example =>
                result = UL_OPEN \o <<NL>> \o LI_OPEN \o <<"a">> \o LI_CLOSE \o <<NL>>
                           \o LI_OPEN \o <<"b">> \o LI_CLOSE \o <<NL>> \o UL_CLOSE

\* C6: every list-item step is as C6_ItemStep says, and each run of
\* consecutive list-item lines gives one <ul>, its items and one </ul>
C6_OneListPerRun == [][C6_ItemStep]_vars /\ []C6_Runs

(***************************************************************************)
(* File names.                                                             *)
(***************************************************************************)
\* str.lower(), on the characters used here
LowerChar(c) ==
    CASE c = "D" -> "d" [] c = "H" -> "h" [] c = "L" -> "l"
      [] c = "M" -> "m" [] c = "T" -> "t" [] c = "Y" -> "y"
      [] OTHER -> c

Lower(s) == [k \in DOMAIN s |-> LowerChar(s[k])]

\* str.endswith(suf)
EndsWith(s, suf) ==
    Len(s) >= Len(suf) /\ SubSeq(s, Len(s) - Len(suf) + 1, Len(s)) = suf

EXT_MD == <<".", "m", "d">>
EXT_HTML == <<".", "h", "t", "m", "l">>

\* ord(c), on the characters used here
CodePoint(c) ==
    CASE c = "." -> 46
      [] c = "D" -> 68 [] c = "H" -> 72 [] c = "L" -> 76 [] c = "M" -> 77
      [] c = "T" -> 84 [] c = "Y" -> 89
      [] c = "a" -> 97 [] c = "b" -> 98 [] c = "c" -> 99 [] c = "d" -> 100
      [] c = "h" -> 104 [] c = "l" -> 108 [] c = "m" -> 109 [] c = "n" -> 110
      [] c = "t" -> 116 [] c = "x" -> 120 [] c = "y" -> 121 [] c = "z" -> 122

\* a < b for Python strings
RECURSIVE StrLess(_, _)
StrLess(a, b) ==
    IF b = <<>> THEN FALSE
    ELSE IF a = <<>> THEN TRUE
    ELSE IF Head(a) # Head(b) THEN CodePoint(Head(a)) < CodePoint(Head(b))
    ELSE StrLess(Tail(a), Tail(b))

\* sorted(S) for a set of strings
RECURSIVE Sorted(_)
Sorted(S) ==
    IF S = {} THEN <<>>
    ELSE LET lo == CHOOSE x \in S : \A y \in S \ {x} : StrLess(x, y)
         IN <<lo>> \o Sorted(S \ {lo})

RECURSIVE LastDot(_)
LastDot(s) ==
    IF s = <<>> THEN 0
    ELSE IF s[Len(s)] = "." THEN Len(s)
    ELSE LastDot(SubSeq(s, 1, Len(s) - 1))

\* os.path.splitext(name)[0]: the name up to its last dot, when a character
\* other than a dot precedes that dot
SplitExtRoot(name) ==
    LET d == LastDot(name)
    IN IF d > 1 /\ \E k \in 1..(d - 1) : name[k] # "."
       THEN SubSeq(name, 1, d - 1)
       ELSE name

\* name.lower().endswith('.md')
IsMdName(name) == EndsWith(Lower(name), EXT_MD)

\* name.lower().endswith('.html')
IsHtmlName(name) == EndsWith(Lower(name), EXT_HTML)

\* the name of dst within HTML_DIR
DstName(name) == SplitExtRoot(name) \o EXT_HTML

(***************************************************************************)
(* The directories main starts from.  An entry of MD_DIR is a directory, a *)
(* file whose bytes are not UTF-8, or a file holding one of SampleTexts;   *)
(* an entry of HTML_DIR is a directory or a file left by an earlier run.   *)
(***************************************************************************)
MdNames ==
    {<<"a", ".", "m", "d">>, <<"a", ".", "M", "D">>, <<"b", ".", "m", "d">>,
     <<"c", ".", "t", "x", "t">>}

HtmlNames ==
    {<<"a", ".", "h", "t", "m", "l">>, <<"z", ".", "h", "t", "m", "l">>,
     <<"Y", ".", "H", "T", "M", "L">>, <<"n", ".", "t", "x", "t">>}

SampleTexts == {L_text, L_item_a}

MdEntries ==
    {[kind |-> "file", utf8 |-> TRUE, text |-> t] : t \in SampleTexts}
        \cup {[kind |-> "file", utf8 |-> FALSE, text |-> <<>>],
              [kind |-> "dir", utf8 |-> FALSE, text |-> <<>>]}

\* the page compile_md_posts writes: the template with base and body filled in
Page(base, body) == [kind |-> "file", title |-> base, body |-> body]

OldPage == Page(<<"o">>, <<"o">>)

HtmlEntries == {OldPage, [kind |-> "dir", title |-> <<>>, body |-> <<>>]}

NoDir == [exists |-> FALSE, entries |-> <<>>]

DirsOf(nameSet, entrySet, max) ==
    {NoDir} \cup
    {[exists |-> TRUE, entries |-> f] :
        f \in UNION {[S -> entrySet] :
                        S \in {T \in SUBSET nameSet : Cardinality(T) <= max}}}

(***************************************************************************)
(* md_to_html_with_pandoc.  What a call meets is chosen by the world:      *)
(* pandoc is not found, or it is found and the run raises, or it is found  *)
(* and the run returns its standard output.                                *)
(***************************************************************************)
PandocStdouts == {<<>>, <<"P">>}

PandocOutcomes ==
    {[found |-> FALSE, raised |-> "", stdout |-> <<>>],
     [found |-> TRUE, raised |-> "CalledProcessError", stdout |-> <<>>],
     [found |-> TRUE, raised |-> "OSError", stdout |-> <<>>]}
        \cup {[found |-> TRUE, raised |-> "", stdout |-> o] : o \in PandocStdouts}

None == [some |-> FALSE, val |-> <<>>]

md_to_html_with_pandoc(outcome) ==
    IF ~outcome.found THEN None
    ELSE IF outcome.raised # "" THEN None
    ELSE [some |-> TRUE, val |-> outcome.stdout]

\* the test with truthiness in place of the comparison with None
FragIsFalsy(frag) == ~frag.some \/ frag.val = <<>>

\* frag is None
FragIsNone(frag) == ~frag.some

\* frag, as compile_md_posts settles it for a document
Fragment(outcome, md_text) ==
    LET frag == md_to_html_with_pandoc(outcome)
    IN IF FragIsNone(frag) THEN MdToHtmlBody(md_text) ELSE frag.val

(***************************************************************************)
(* main as a state machine.                                                *)
(***************************************************************************)
\* md_to_html_body is not running
MdIdle ==
    /\ md = <<>>
    /\ i = 0
    /\ out = <<>>
    /\ in_code = FALSE
    /\ in_list = FALSE
    /\ para = <<>>
    /\ outLines = <<>>
    /\ paraLines = <<>>
    /\ result = <<>>
    /\ pc = "idle"
    /\ returned = <<>>

MainInit ==
    /\ md_dir \in DirsOf(MdNames, MdEntries, MaxMdEntries)
    /\ html_dir \in DirsOf(HtmlNames, HtmlEntries, MaxHtmlEntries)
    /\ names = <<>>
    /\ taken = 0
    /\ written = <<>>
    /\ calls = <<>>
    /\ posts = <<>>
    /\ index_file = [exists |-> FALSE, items |-> <<>>]
    /\ printed = <<>>
    /\ error = ""
    /\ mpc = "ensure_dirs"
    /\ MdIdle

\* os.makedirs(HTML_DIR, exist_ok=True)
ensure_dirs ==
    /\ mpc = "ensure_dirs"
    /\ html_dir' = [html_dir EXCEPT !.exists = TRUE]
    /\ mpc' = "compile"
    /\ UNCHANGED <<md_dir, names, taken, written, calls, posts, index_file,
                   printed, error>>
    /\ UNCHANGED mdVars

\* compile_md_posts: MD_DIR is no directory
CompileNoDir ==
    /\ mpc = "compile"
    /\ ~md_dir.exists
    /\ written' = <<>>
    /\ mpc' = "collect"
    /\ UNCHANGED <<md_dir, html_dir, names, taken, calls, posts, index_file,
                   printed, error>>
    /\ UNCHANGED mdVars

\* compile_md_posts: the listing the loop runs over
CompileList ==
    /\ mpc = "compile"
    /\ md_dir.exists
    /\ written' = <<>>
    /\ names' = Sorted(DOMAIN md_dir.entries)
    /\ taken' = 0
    /\ mpc' = "compile_loop"
    /\ UNCHANGED <<md_dir, html_dir, calls, posts, index_file, printed, error>>
    /\ UNCHANGED mdVars

InCompileLoop == mpc = "compile_loop" /\ taken < Len(names)

Name == names[taken + 1]

Source == md_dir.entries[Name]

Readable == Source.kind = "file" /\ Source.utf8

DstIsDir ==
    /\ DstName(Name) \in DOMAIN html_dir.entries
    /\ html_dir.entries[DstName(Name)].kind = "dir"

\* the name does not end in .md: continue
CompileSkip ==
    /\ InCompileLoop
    /\ ~IsMdName(Name)
    /\ taken' = taken + 1
    /\ UNCHANGED <<md_dir, html_dir, names, written, calls, posts, index_file,
                   printed, error, mpc>>
    /\ UNCHANGED mdVars

\* open(src, 'r') on a directory raises; nothing in main catches it
CompileOpenRaises ==
    /\ InCompileLoop
    /\ IsMdName(Name)
    /\ Source.kind = "dir"
    /\ error' = "IsADirectoryError"
    /\ mpc' = "raised"
    /\ UNCHANGED <<md_dir, html_dir, names, taken, written, calls, posts,
                   index_file, printed>>
    /\ UNCHANGED mdVars

\* f.read() with encoding utf-8 on other bytes raises; nothing in main catches it
CompileReadRaises ==
    /\ InCompileLoop
    /\ IsMdName(Name)
    /\ Source.kind = "file"
    /\ ~Source.utf8
    /\ error' = "UnicodeDecodeError"
    /\ mpc' = "raised"
    /\ UNCHANGED <<md_dir, html_dir, names, taken, written, calls, posts,
                   index_file, printed>>
    /\ UNCHANGED mdVars

\* the document is read and converted, and open(dst, 'w') on a directory raises
CompileWriteRaises ==
    /\ InCompileLoop
    /\ IsMdName(Name)
    /\ Readable
    /\ DstIsDir
    /\ \E outcome \in PandocOutcomes :
         calls' = Append(calls, [name |-> Name, outcome |-> outcome])
    /\ error' = "IsADirectoryError"
    /\ mpc' = "raised"
    /\ UNCHANGED <<md_dir, html_dir, names, taken, written, posts, index_file,
                   printed>>
    /\ UNCHANGED mdVars

\* the document is read, converted and written
CompileWrite ==
    /\ InCompileLoop
    /\ IsMdName(Name)
    /\ Readable
    /\ ~DstIsDir
    /\ \E outcome \in PandocOutcomes :
         /\ calls' = Append(calls, [name |-> Name, outcome |-> outcome])
         /\ html_dir' =
              [html_dir EXCEPT !.entries =
                 [x \in DOMAIN html_dir.entries \cup {DstName(Name)} |->
                    IF x = DstName(Name)
                    THEN Page(SplitExtRoot(Name), Fragment(outcome, Source.text))
                    ELSE html_dir.entries[x]]]
    /\ written' = Append(written, DstName(Name))
    /\ taken' = taken + 1
    /\ UNCHANGED <<md_dir, names, posts, index_file, printed, error, mpc>>
    /\ UNCHANGED mdVars

\* compile_md_posts: return written
CompileReturn ==
    /\ mpc = "compile_loop"
    /\ taken = Len(names)
    /\ mpc' = "collect"
    /\ UNCHANGED <<md_dir, html_dir, names, taken, written, calls, posts,
                   index_file, printed, error>>
    /\ UNCHANGED mdVars

\* posts taken from the list written, not from the directory
posts_from_written == written

\* the .html test without lower()
collect_posts_case_sensitive ==
    IF ~html_dir.exists THEN <<>>
    ELSE SelectSeq(Sorted(DOMAIN html_dir.entries),
                   LAMBDA x : EndsWith(x, EXT_HTML))

collect_posts ==
    IF ~html_dir.exists THEN <<>>
    ELSE SelectSeq(Sorted(DOMAIN html_dir.entries), IsHtmlName)

\* posts = collect_posts()
CollectPosts ==
    /\ mpc = "collect"
    /\ posts' = collect_posts
    /\ mpc' = "write_index"
    /\ UNCHANGED <<md_dir, html_dir, names, taken, written, calls, index_file,
                   printed, error>>
    /\ UNCHANGED mdVars

\* render(posts): the entries the page lists, one per post
render(ps) == [exists |-> TRUE, items |-> ps]

\* the index is written and the counts are printed
WriteIndex ==
    /\ mpc = "write_index"
    /\ index_file' = render(posts)
    /\ printed' = <<Len(written), Len(posts)>>
    /\ mpc' = "done"
    /\ UNCHANGED <<md_dir, html_dir, names, taken, written, calls, posts, error>>
    /\ UNCHANGED mdVars

MainNext ==
    \/ ensure_dirs
    \/ CompileNoDir
    \/ CompileList
    \/ CompileSkip
    \/ CompileOpenRaises
    \/ CompileReadRaises
    \/ CompileWriteRaises
    \/ CompileWrite
    \/ CompileReturn
    \/ CollectPosts
    \/ WriteIndex

MainSpec == MainInit /\ [][MainNext]_vars

(***************************************************************************)
(* Vocabulary of the properties of main.                                   *)
(***************************************************************************)
\* the names in HTML_DIR that end in .html, letter case ignored
HtmlNamesPresent ==
    {x \in DOMAIN html_dir.entries : EndsWith(Lower(x), EXT_HTML)}

\* the names in HTML_DIR that end in .html, letter for letter
HtmlNamesPresentExact == {x \in DOMAIN html_dir.entries : EndsWith(x, EXT_HTML)}

\* the names in MD_DIR that compile_md_posts takes as documents
MdNamesPresent ==
    IF md_dir.exists
    THEN {x \in DOMAIN md_dir.entries : EndsWith(Lower(x), EXT_MD)}
    ELSE {}

StrictlyAscending(seq) ==
    \A a, b \in DOMAIN seq : a < b => StrLess(seq[a], seq[b])

\* the source directory is absent or has no entries
SourceEmpty == ~md_dir.exists \/ DOMAIN md_dir.entries = {}

ToolSucceeded(outcome) == outcome.found /\ outcome.raised = ""

(***************************************************************************)
(* C7: for each source document compile_md_posts uses the external tool's  *)
(* output verbatim when the tool is present and its run succeeds, and the  *)
(* output of md_to_html_body in every other case (tool absent, non-zero    *)
(* exit, any invocation error); a tool failure is never surfaced and never *)
(* keeps that document or a later one from being written.                  *)
(***************************************************************************)
C7_DocumentStep ==
    (InCompileLoop /\ IsMdName(Name) /\ Readable)
        => /\ Len(calls') = Len(calls) + 1
           /\ calls'[Len(calls')].name = Name
           /\ error' \notin {"CalledProcessError", "OSError"}
           /\ mpc' = "raised" => DstIsDir
           /\ ~DstIsDir =>
                /\ mpc' = "compile_loop"
                /\ taken' = taken + 1
                /\ written' = Append(written, DstName(Name))
                /\ DstName(Name) \in DOMAIN html_dir'.entries
                /\ html_dir'.entries[DstName(Name)].kind = "file"
                /\ html_dir'.entries[DstName(Name)].body =
                     (IF ToolSucceeded(calls'[Len(calls')].outcome)
                      THEN calls'[Len(calls')].outcome.stdout
                      ELSE MdToHtmlBody(Source.text))

C7_AllWritten ==
    mpc = "done"
        => /\ Len(written) = Cardinality(MdNamesPresent)
           /\ Len(calls) = Len(written)
           /\ \A k \in DOMAIN written : written[k] = DstName(calls[k].name)

\* C7: every document step uses the tool's output when the tool succeeded and
\* md_to_html_body's output otherwise, no tool failure ends main, and every
\* document is written whatever the tool did
C7_ToolOrFallback == [][C7_DocumentStep]_vars /\ []C7_AllWritten

\* C7: the tool failed on the first document and succeeded, with empty output,
\* on the second; both were written
C7_Witness ==
    /\ mpc = "done"
    /\ Len(written) = 2
    /\ written[1] # written[2]
    /\ calls[1].outcome.raised = "CalledProcessError"
    /\ html_dir.entries[written[1]].body = P_OPEN \o L_text \o P_CLOSE
    /\ ToolSucceeded(calls[2].outcome)
    /\ html_dir.entries[written[2]].body = <<>>

(***************************************************************************)
(* C8, as amended: main builds the index from the contents of the output   *)
(* directory as they are after compilation: the listed entries are exactly *)
(* the names present in it that end in .html, letter case ignored, in      *)
(* sorted order, so every document compiled in this run is listed and so   *)
(* is a stale .html file with no source.                                   *)
(***************************************************************************)
C8_IndexListsDirectory ==
    mpc = "done"
        => /\ index_file.exists
           /\ Range(index_file.items) = HtmlNamesPresent
           /\ StrictlyAscending(index_file.items)
           /\ Range(written) \subseteq Range(index_file.items)
           /\ printed = <<Len(written), Len(index_file.items)>>

\* C8: the index lists a compiled document and a stale upper-case .HTML file
C8_Witness ==
    /\ mpc = "done"
    /\ written # <<>>
    /\ \E x \in Range(index_file.items) :
         /\ x \notin Range(written)
         /\ html_dir.entries[x] = OldPage
         /\ ~EndsWith(x, EXT_HTML)

(***************************************************************************)
(* C8, as stated: the listed entries are exactly the names present in the  *)
(* output directory that end in .html, in sorted order.                    *)
(***************************************************************************)
C8_AsStated ==
    mpc = "done"
        => /\ index_file.exists
           /\ Range(index_file.items) = HtmlNamesPresentExact
           /\ StrictlyAscending(index_file.items)
           /\ Range(written) \subseteq Range(index_file.items)

(***************************************************************************)
(* C9, as amended: when the source directory is empty or absent, main      *)
(* raises no error, always has a next step until it is done, and then has  *)
(* written an index that lists exactly the .html names already in the      *)
(* output directory (zero entries when there are none) and has reported a  *)
(* compiled count of 0.                                                    *)
(***************************************************************************)
C9_EmptySourceRun ==
    SourceEmpty
        => /\ error = ""
           /\ mpc # "raised"
           /\ mpc # "done" => ENABLED MainNext
           /\ mpc = "done" =>
                /\ index_file.exists
                /\ Range(index_file.items) = HtmlNamesPresent
                /\ Len(index_file.items) = Cardinality(HtmlNamesPresent)
                /\ written = <<>>
                /\ printed = <<0, Cardinality(HtmlNamesPresent)>>

\* C9: main ran with no source documents and listed one stale entry
C9_Witness ==
    /\ SourceEmpty
    /\ mpc = "done"
    /\ index_file.exists
    /\ Len(index_file.items) = 1
    /\ printed = <<0, 1>>

(***************************************************************************)
(* C9, as stated: when the source directory is empty or absent, main       *)
(* writes an index that lists zero entries and reports a compiled count of *)
(* 0, without raising an error.                                            *)
(***************************************************************************)
C9_AsStated ==
    SourceEmpty
        => /\ error = ""
           /\ mpc = "done" =>
                /\ index_file.exists
                /\ index_file.items = <<>>
                /\ printed[1] = 0

(***************************************************************************)
(* C10: main always runs to completion and writes the index file, whatever *)
(* the source and output directories hold: no failure while compiling a    *)
(* document stops the run before the index is written.                     *)
(***************************************************************************)
C10_AlwaysWritesIndex ==
    /\ error = ""
    /\ mpc # "raised"
    /\ mpc = "done" => index_file.exists

(***************************************************************************)
(* C11: md_to_html_body is pure.  Calls on the same document return the    *)
(* same output, whether they follow each other or other documents are      *)
(* converted in between, and every call starts from the locals of lines    *)
(* 26-29: nothing of the call before is left.                              *)
(***************************************************************************)
C11_EntryIsFresh == (pc = "loop" /\ i = 0) => Cur = InitialState

\* C11: two calls that have returned on the same document returned the same
\* output, and each call starts from the initial locals
C11_SameInputSameOutput ==
    /\ \A a, b \in DOMAIN returned :
          returned[a].md = returned[b].md => returned[a].result = returned[b].result
    /\ C11_EntryIsFresh

\* C11: a document that leaves its code block open was converted, then another
\* document, then the first one again
C11_Witness ==
    /\ Len(returned) >= 3
    /\ returned[1].md = FENCE
    /\ returned[2].md = L_item_a
    /\ returned[3].md = FENCE
    /\ returned[3].result = PRE_OPEN \o <<NL>> \o PRE_CLOSE

(***************************************************************************)
(* C12: after each line at most one of the three modes is active: a code   *)
(* block is open, a list is open, or the paragraph buffer is non-empty.    *)
(***************************************************************************)
ActiveModes ==
    (IF in_code THEN 1 ELSE 0) + (IF in_list THEN 1 ELSE 0)
        + (IF para # <<>> THEN 1 ELSE 0)

\* C12: at most one of in_code, in_list and a non-empty para holds
C12_AtMostOneMode == ActiveModes <= 1

(***************************************************************************)
(* C13: outside a code block a line of one to six # followed by white      *)
(* space flushes the paragraph, closes the list and emits exactly one      *)
(* heading entry of that level whose text is the trimmed remainder, with   *)
(* no link substitution.  A line that starts with seven # is paragraph     *)
(* text.                                                                   *)
(***************************************************************************)
\* the line starts with exactly k # and white space follows them
HashesThenSpace(line, k) ==
    /\ Len(line) > k
    /\ \A j \in 1..k : line[j] = "#"
    /\ IsSpace(line[k + 1])

C13_HeadingStep ==
    \A k \in 1..6 :
        (InLoop /\ ~in_code /\ ~IsFence(Line) /\ HashesThenSpace(Line, k))
            => /\ OutExtended
               /\ Len(Appended) = (IF para # <<>> THEN 1 ELSE 0)
                                    + (IF in_list THEN 1 ELSE 0) + 1
               /\ para # <<>> => StartsWith(Appended[1], P_OPEN)
               /\ in_list => Appended[Len(Appended) - 1] = UL_CLOSE
               /\ Appended[Len(Appended)]
                    = H_OPEN(k) \o Strip(Drop(Line, k)) \o H_CLOSE(k)
               /\ para' = <<>>
               /\ ~in_list'
               /\ ~in_code'

C13_SevenHashStep ==
    (InLoop /\ ~in_code /\ Len(Line) >= 7 /\ \A j \in 1..7 : Line[j] = "#")
        => /\ out' = out
           /\ para' = Append(para, Line)
           /\ in_list' = in_list

\* C13: every heading step emits one heading entry with the trimmed text as
\* it stands, and a line of seven # goes to the paragraph buffer
C13_HeadingLine == [][C13_HeadingStep /\ C13_SevenHashStep]_vars

\* C13: a heading of level 2 whose text holds a link and outer white space
\* was read after a paragraph line, and a line of seven # was buffered
C13_Witness ==
    /\ md = Join(<<L_text, L_heading_link, L_hashes7>>, <<NL>>)
    /\ i = 3
    /\ out = <<P_OPEN \o L_text \o P_CLOSE,
               H_OPEN(2) \o <<"[", "x", "]", "(", "u", ")">> \o H_CLOSE(2)>>
    /\ para = <<L_hashes7>>

(***************************************************************************)
(* C14: a plain text line is appended to para as it stands.  A flush of a  *)
(* non-empty para emits exactly one paragraph entry and empties para; a    *)
(* step that starts with para empty emits no paragraph entry.  As stated,  *)
(* the text of the entry is the buffered lines joined by one space with    *)
(* only the link substitution applied; in the code the joined text first   *)
(* loses its leading and trailing white space.                             *)
(***************************************************************************)
IsParagraphEntry(e) ==
    /\ Len(e) >= Len(P_OPEN) + Len(P_CLOSE)
    /\ StartsWith(e, P_OPEN)
    /\ SubSeq(e, Len(e) - Len(P_CLOSE) + 1, Len(e)) = P_CLOSE

ParagraphsAppended == {k \in DOMAIN Appended : IsParagraphEntry(Appended[k])}

\* the line has a character that is not white space
HasText(line) == \E k \in DOMAIN line : ~IsSpace(line[k])

C14_TextStep ==
    (InLoop /\ ~in_code /\ Classify(Cur, Line) = "other" /\ HasText(Line))
        => /\ para' = Append(para, Line)
           /\ out' = out

\* what a step does to para and the paragraph entries it emits, T(lines)
\* being the text of the entry emitted for the buffered lines
C14_FlushStep(T(_)) ==
    /\ OutExtended
    /\ para' = <<>> \/ para' = para \/ (InLoop /\ para' = Append(para, Line))
    /\ (para # <<>> /\ para' = <<>>)
         => /\ Cardinality(ParagraphsAppended) = 1
            /\ \A k \in ParagraphsAppended :
                  Appended[k] = P_OPEN \o T(para) \o P_CLOSE
    /\ (para = <<>> \/ para' # <<>>) => ParagraphsAppended = {}

C14_JoinedText(lines) == LinkSub(Join(lines, <<" ">>))

C14_JoinedStrippedText(lines) == LinkSub(Strip(Join(lines, <<" ">>)))

\* C14: text lines are buffered as they stand, and a flush emits one
\* paragraph entry whose text is the buffered lines joined by one space,
\* with the outer white space of the joined text removed and then the link
\* substitution applied
C14_ParagraphFlush ==
    [][C14_TextStep /\ C14_FlushStep(C14_JoinedStrippedText)]_vars

\* C14 as stated: the text of the entry is the joined lines unmodified but
\* for the link substitution
C14_AsStated == [][C14_TextStep /\ C14_FlushStep(C14_JoinedText)]_vars

\* C14: two text lines, the second with outer white space, were buffered as
\* they stand and flushed by a line of white space into one paragraph
C14_Witness ==
    /\ md = Join(<<L_text, L_text_spaced, L_space>>, <<NL>>)
    /\ i = 3
    /\ para = <<>>
    /\ out = <<P_OPEN \o <<"t", " ", " ", "t">> \o P_CLOSE>>

(***************************************************************************)
(* C15: the link substitution on paragraph text and list-item text.  An    *)
(* occurrence starts at a [ and is a non-empty label without ], then ](,   *)
(* then a non-empty target without ), then ).  The occurrences replaced    *)
(* are chosen from the left, each one starting after the end of the one    *)
(* chosen before; every chosen occurrence becomes the anchor of its target *)
(* and label, and every character outside them stays.                      *)
(***************************************************************************)
Least(S) == IF S = {} THEN 0 ELSE CHOOSE x \in S : \A y \in S : x <= y

\* the position of the ] that ends a label starting after position p
LabelEnd(s, p) == Least({k \in (p + 1)..Len(s) : s[k] = "]"})

\* the position of the ) that ends the occurrence starting at p, 0 if none
OccurrenceEnd(s, p) ==
    LET rb == LabelEnd(s, p)
    IN IF s[p] = "[" /\ rb > p + 1 /\ rb < Len(s) /\ s[rb + 1] = "("
       THEN LET q == Least({k \in (rb + 2)..Len(s) : s[k] = ")"})
            IN IF q > rb + 2 THEN q ELSE 0
       ELSE 0

Occurrences(s) == {p \in DOMAIN s : OccurrenceEnd(s, p) > 0}

\* the occurrences replaced: the leftmost of S, then those of the rest that
\* start after its end
RECURSIVE ChosenOf(_, _)
ChosenOf(s, S) ==
    IF S = {} THEN {}
    ELSE LET m == Least(S)
         IN {m} \cup ChosenOf(s, {p \in S : p > OccurrenceEnd(s, m)})

Anchor(s, p) ==
    LET rb == LabelEnd(s, p)
    IN A_HREF \o SubSeq(s, rb + 2, OccurrenceEnd(s, p) - 1) \o A_MID
          \o SubSeq(s, p + 1, rb - 1) \o A_CLOSE

Rewritten(s) ==
    LET C == ChosenOf(s, Occurrences(s))
        piece(p) ==
            IF p \in C THEN Anchor(s, p)
            ELSE IF \E m \in C : m < p /\ p <= OccurrenceEnd(s, m) THEN <<>>
            ELSE <<s[p]>>
    IN Join([p \in 1..Len(s) |-> piece(p)], <<>>)

C15_ParagraphStep ==
    (para # <<>> /\ para' = <<>>)
        => \A k \in ParagraphsAppended :
              Appended[k]
                = P_OPEN \o Rewritten(Strip(Join(para, <<" ">>))) \o P_CLOSE

C15_ItemStep ==
    (InLoop /\ ~in_code /\ IsListItem(Line) /\ ~IsFence(Line))
        => /\ Appended # <<>>
           /\ Appended[Len(Appended)]
                = LI_OPEN \o Rewritten(ItemText(Line)) \o LI_CLOSE

C15_Examples ==
    /\ LinkSub(L_links)
         = A_HREF \o <<"u">> \o A_MID \o <<"x">> \o A_CLOSE
             \o A_HREF \o <<"v">> \o A_MID \o <<"[", "y">> \o A_CLOSE
             \o <<"]", "(", "w", ")">>
    /\ LinkSub(<<"[", "]", "(", "u", ")", "[", "x", "]", "(", ")">>)
         = <<"[", "]", "(", "u", ")", "[", "x", "]", "(", ")">>

\* C15: the text of every paragraph entry and of every list-item entry is
\* its source text with the chosen occurrences replaced by their anchors and
\* everything else unchanged, the output not being scanned again
C15_LinkSubstitution ==
    [][C15_ParagraphStep /\ C15_ItemStep /\ C15_Examples]_vars

\* C15: a paragraph with two adjacent links, the second one with brackets
\* around it, and a list item with a link were converted
C15_Witness ==
    /\ pc = "done"
    /\ md = Join(<<L_links, L_blank, L_item_link>>, <<NL>>)
    /\ out = <<P_OPEN \o A_HREF \o <<"u">> \o A_MID \o <<"x">> \o A_CLOSE
                  \o A_HREF \o <<"v">> \o A_MID \o <<"[", "y">> \o A_CLOSE
                  \o <<"]", "(", "w", ")">> \o P_CLOSE,
               UL_OPEN,
               LI_OPEN \o A_HREF \o <<"u">> \o A_MID \o <<"x">> \o A_CLOSE
                  \o LI_CLOSE,
               UL_CLOSE>>

(***************************************************************************)
(* C16: every entry of the output between a <ul> and the next </ul> is a   *)
(* list-item entry.                                                        *)
(***************************************************************************)
\* entry k lies inside a list: a <ul> precedes it with no </ul> in between
InsideList(k) ==
    /\ out[k] # UL_CLOSE
    /\ \E a \in 1..(k - 1) :
          /\ out[a] = UL_OPEN
          /\ \A c \in (a + 1)..k : out[c] # UL_CLOSE

\* C16: an entry inside a list is a list-item entry
C16_ListHoldsItemsOnly ==
    \A k \in DOMAIN out : InsideList(k) => IsListItemEntry(out[k])

(***************************************************************************)
(* C17: <ul> and </ul> alternate strictly, and so do <pre><code> and       *)
(* </code></pre>; neither is opened while the other is open; in the        *)
(* returned output both are balanced.                                      *)
(***************************************************************************)
\* how many of the first k entries are the given entry
CountUpTo(k, entry) == Cardinality({j \in 1..k : out[j] = entry})

ListsOpenAfter(k) == CountUpTo(k, UL_OPEN) - CountUpTo(k, UL_CLOSE)

CodeOpenAfter(k) == CountUpTo(k, PRE_OPEN) - CountUpTo(k, PRE_CLOSE)

\* C17: after every entry at most one list or code block is open, never one
\* of each, and none is open in the returned output
C17_MarkersAlternate ==
    /\ \A k \in 0..Len(out) :
          /\ ListsOpenAfter(k) \in {0, 1}
          /\ CodeOpenAfter(k) \in {0, 1}
          /\ ListsOpenAfter(k) + CodeOpenAfter(k) <= 1
    /\ ListsOpenAfter(Len(out)) = (IF in_list THEN 1 ELSE 0)
    /\ pc = "loop" => CodeOpenAfter(Len(out)) = (IF in_code THEN 1 ELSE 0)
    /\ pc = "done" => ListsOpenAfter(Len(out)) = 0 /\ CodeOpenAfter(Len(out)) = 0

\* C17: a list, then a fence that closed the list before it opened the code
\* block, then a list-item line read as code, the block closed at the end
C17_Witness ==
    /\ pc = "done"
    /\ md = Join(<<L_item_a, L_fence, L_item_b>>, <<NL>>)
    /\ out = <<UL_OPEN, LI_OPEN \o <<"a">> \o LI_CLOSE, UL_CLOSE,
               PRE_OPEN, L_item_b, PRE_CLOSE>>

(***************************************************************************)
(* C19: no empty paragraph is emitted.  para holds only lines with a       *)
(* character that is not white space, every paragraph entry has text, and  *)
(* a blank or white-space-only line has no entry of its own.  As stated    *)
(* this is said of every such line; in the code such a line read inside a  *)
(* code block is emitted as a code line.                                   *)
(***************************************************************************)
C19_ParagraphsHaveText ==
    /\ \A j \in DOMAIN para : HasText(para[j])
    /\ \A k \in DOMAIN out :
          IsParagraphEntry(out[k])
              => /\ Len(out[k]) > Len(P_OPEN) + Len(P_CLOSE)
                 /\ outLines[k] # {}
                 /\ \A n \in outLines[k] : HasText(LineAt(n))

\* every entry is a marker, or carries lines already read
OutIsOfLines ==
    /\ Len(outLines) = Len(out)
    /\ \A k \in DOMAIN out :
          /\ outLines[k] \subseteq 1..i
          /\ outLines[k] = {} <=> out[k] \in {UL_OPEN, UL_CLOSE, PRE_OPEN, PRE_CLOSE}

\* the entries that carry the text of input line n
EntriesOf(n) == {k \in DOMAIN out : n \in outLines[k]}

\* C19: paragraphs have text, and a line without text that is read outside
\* a code block has no entry of its own
C19_NoEmptyParagraph ==
    /\ C19_ParagraphsHaveText
    /\ \A n \in 1..i : (~HasText(LineAt(n)) /\ ~InCodeAt(n)) => EntriesOf(n) = {}
    /\ OutIsOfLines

\* C19 as stated: no line without text has an entry of its own
C19_AsStated ==
    /\ C19_ParagraphsHaveText
    /\ \A n \in 1..i : ~HasText(LineAt(n)) => EntriesOf(n) = {}

\* C19: a text line, a line of white space and a text line gave two
\* paragraphs and nothing for the line in between
C19_Witness ==
    /\ pc = "done"
    /\ md = Join(<<L_text, L_space, L_text_spaced>>, <<NL>>)
    /\ out = <<P_OPEN \o L_text \o P_CLOSE, P_OPEN \o L_text \o P_CLOSE>>
    /\ EntriesOf(2) = {}

(***************************************************************************)
(* C18: when main has completed, the number of documents reported as       *)
(* compiled is at most the number of entries listed, because source names  *)
(* that differ are written to output names that differ.                    *)
(***************************************************************************)
DistinctSourcesDistinctOutputs ==
    \A a, b \in DOMAIN calls :
        calls[a].name # calls[b].name => written[a] # written[b]

\* C18: the compiled count does not exceed the listed count, and no two
\* sources are written to the same output
C18_CompiledAtMostListed ==
    /\ Len(written) = Len(calls) => DistinctSourcesDistinctOutputs
    /\ mpc = "done" => printed[1] <= printed[2]

=============================================================================
